---------------------------- MODULE Spec2Model ----------------------------
(***************************************************************************)
(* Model of the mental-insights service:                                   *)
(*   src/src/mental_insights_database.py  (ranking, SQLite store,          *)
(*                                          generation)                    *)
(*   src/app.py                            (TOP_N, date parsing)           *)
(*                                                                         *)
(* Three specifications share the variables:                               *)
(*   SpecRank  - get_stress_level_insights as a pure function of a frame   *)
(*   SpecStore - the store API called in any order on one database file    *)
(*   Spec      - start-up generation and reads over a persistent file      *)
(***************************************************************************)
EXTENDS Integers, Sequences, FiniteSets, TLC

VARIABLES
    db,                     \* the SQLite file: [exists, rows], rows the table's rows
    open_conns,             \* connections opened by a finished call and never closed
    pc,                     \* position of the process
    top_n,                  \* InsightsDatabase.top_n
    iot_data,               \* rows read from the CSV by the current/last run
    pending,                \* dates of set(iot_data_by_day.index) not yet iterated
    insights_on_whole_set,  \* InsightsDatabase.insights_on_whole_set (<<>> is None)
    ret,                    \* outcome of the last call
    run                     \* this process's generation run: the table rows it found, how it ended

vars == <<db, open_conns, pc, top_n, iot_data, pending,
          insights_on_whole_set, ret, run>>

---------------------------------------------------------------------------
(* Bounds of the model *)

MaxRankRows == 3
MaxTopN == 3
MaxGenRows == 4
MaxLeaked == 1

(* app.py: TOP_N *)
TOP_N == 5

---------------------------------------------------------------------------
(* Calendar dates: datetime.date *)

Date(y, m, d) == [year |-> y, month |-> m, day |-> d]

IsLeap(y) == (y % 4 = 0) /\ ((y % 100 # 0) \/ (y % 400 = 0))

DaysInMonth(y, m) ==
    IF m = 2 THEN (IF IsLeap(y) THEN 29 ELSE 28)
    ELSE IF m \in {4, 6, 9, 11} THEN 30 ELSE 31

RECURSIVE DaysBeforeMonth(_, _)
DaysBeforeMonth(y, m) ==
    IF m = 1 THEN 0 ELSE DaysBeforeMonth(y, m - 1) + DaysInMonth(y, m - 1)

\* date.toordinal(): proleptic Gregorian ordinal, 0001-01-01 is day 1
toordinal(d) ==
    LET y == d.year - 1
    IN  y * 365 + (y \div 4) - (y \div 100) + (y \div 400)
        + DaysBeforeMonth(d.year, d.month) + d.day

\* Timestamp.isoweekday(): Monday = 1 ... Sunday = 7
isoweekday(d) == LET r == toordinal(d) % 7 IN IF r = 0 THEN 7 ELSE r

\* calendar order of dates
DateLess(a, b) == toordinal(a) < toordinal(b)

---------------------------------------------------------------------------
(* Text: a string is the sequence of its character codes *)

Pow10(k) == IF k = 0 THEN 1 ELSE IF k = 1 THEN 10 ELSE IF k = 2 THEN 100 ELSE 1000

\* "%0*d": n as w decimal digits, zero padded
ZeroPad(n, w) == [i \in 1..w |-> 48 + ((n \div Pow10(w - i)) % 10)]

\* strftime("%Y-%m"): the day of the month left out
isoformat_month_only(d) == ZeroPad(d.year, 4) \o <<45>> \o ZeroPad(d.month, 2)

\* date.isoformat(): "YYYY-MM-DD"
isoformat(d) ==
    ZeroPad(d.year, 4) \o <<45>> \o ZeroPad(d.month, 2) \o <<45>> \o ZeroPad(d.day, 2)

Min(a, b) == IF a < b THEN a ELSE b

\* SQLite BINARY collation on TEXT (memcmp, then length)
TextLess(s, t) ==
    \/ \E i \in 1..Min(Len(s), Len(t)) :
          /\ s[i] < t[i]
          /\ \A j \in 1..(i - 1) : s[j] = t[j]
    \/ /\ Len(s) < Len(t)
       /\ \A j \in 1..Len(s) : s[j] = t[j]


---------------------------------------------------------------------------
(* The data frame.  A CSV row is [timestamp |-> [date, hour],              *)
(* stress_level |-> n, hr |-> n]; hr stands for the other numeric feature  *)
(* columns of the file.                                                    *)

CsvRow(d, h, s, x) ==
    [timestamp |-> [date |-> d, hour |-> h], stress_level |-> s, hr |-> x]

\* generate_insights_from_iot_data: the derived columns of one row
Enrich(r) ==
    [timestamp |-> r.timestamp,
     hr |-> r.hr,
     stress_level |-> r.stress_level,
     timestamp_day |-> r.timestamp.date,
     timestamp_day_of_month |-> r.timestamp.date.day,
     timestamp_day_of_week |-> isoweekday(r.timestamp.date),
     timestamp_hour |-> r.timestamp.hour,
     timestamp_hour_4_hour_bucket |-> r.timestamp.hour \div 4,
     timestamp_hour_6_hour_bucket |-> r.timestamp.hour \div 6]

EnrichAll(rows) == [i \in 1..Len(rows) |-> Enrich(rows[i])]

\* iot_data.drop('timestamp_day', axis=1): the columns, in frame order
WholeSetColumns ==
    <<"timestamp", "hr", "stress_level", "timestamp_day_of_month",
      "timestamp_day_of_week", "timestamp_hour",
      "timestamp_hour_4_hour_bucket", "timestamp_hour_6_hour_bucket">>

\* iot_data.drop('timestamp_day_of_week', axis=1).set_index('timestamp_day')
ByDayColumns ==
    <<"timestamp", "hr", "stress_level", "timestamp_day_of_month",
      "timestamp_hour", "timestamp_hour_4_hour_bucket",
      "timestamp_hour_6_hour_bucket">>

Frame(cols, rows) == [kind |-> "frame", cols |-> cols, rows |-> rows]
Series(cols, row) == [kind |-> "series", cols |-> cols, rows |-> <<row>>]

\* the dates of set(iot_data_by_day.index)
DatesOf(rows) == {rows[i].timestamp.date : i \in 1..Len(rows)}

RECURSIVE SelectRows(_, _)
SelectRows(rows, d) ==
    IF rows = <<>> THEN <<>>
    ELSE (IF Head(rows).timestamp_day = d THEN <<Head(rows)>> ELSE <<>>)
         \o SelectRows(Tail(rows), d)

\* iot_data_by_day.loc[_day]: a label that occurs once selects a Series,
\* a label that occurs several times selects a DataFrame
loc(cols, rows, d) ==
    LET sel == SelectRows(rows, d)
    IN  IF Len(sel) = 1 THEN Series(cols, sel[1]) ELSE Frame(cols, sel)

---------------------------------------------------------------------------
(* Pearson correlation, DataFrame.corr().  A coefficient r is kept exactly *)
(* as its sign and r^2 = num/den in lowest terms; den = 0 is NaN.          *)

TsOrigin == Date(2024, 1, 1)

\* the number corr() sees in a cell.  A datetime64 cell is its offset from
\* an origin; r does not change under a common shift and positive scaling,
\* so the offset is counted in hours from TsOrigin.
Numeric(r, c) ==
    IF c = "timestamp"
    THEN (toordinal(r.timestamp.date) - toordinal(TsOrigin)) * 24 + r.timestamp.hour
    ELSE r[c]

RECURSIVE SumOver(_, _, _)
SumOver(rows, c1, c2) ==
    IF rows = <<>> THEN 0
    ELSE Numeric(Head(rows), c1) * Numeric(Head(rows), c2)
         + SumOver(Tail(rows), c1, c2)

RECURSIVE SumOf(_, _)
SumOf(rows, c) ==
    IF rows = <<>> THEN 0 ELSE Numeric(Head(rows), c) + SumOf(Tail(rows), c)

RECURSIVE GCD(_, _)
GCD(a, b) == IF b = 0 THEN a ELSE GCD(b, a % b)

NaN == [sgn |-> 0, num |-> 0, den |-> 0]
isnan(v) == v.den = 0

Pearson(rows, c1, c2) ==
    LET n   == Len(rows)
        sxy == n * SumOver(rows, c1, c2) - SumOf(rows, c1) * SumOf(rows, c2)
        sxx == n * SumOver(rows, c1, c1) - SumOf(rows, c1) * SumOf(rows, c1)
        syy == n * SumOver(rows, c2, c2) - SumOf(rows, c2) * SumOf(rows, c2)
    IN  IF sxx = 0 \/ syy = 0 THEN NaN
        ELSE LET g == GCD(sxy * sxy, sxx * syy)
             IN  [sgn |-> IF sxy > 0 THEN 1 ELSE IF sxy < 0 THEN -1 ELSE 0,
                  num |-> (sxy * sxy) \div g,
                  den |-> (sxx * syy) \div g]

\* a/b < c/d for a, c >= 0 and b, d > 0, by continued fractions
RECURSIVE FracLess(_, _, _, _)
FracLess(a, b, c, d) ==
    LET qa == a \div b
        qc == c \div d
        ra == a % b
        rc == c % d
    IN  IF qa # qc THEN qa < qc
        ELSE IF rc = 0 THEN FALSE
        ELSE IF ra = 0 THEN TRUE
        ELSE FracLess(d, rc, b, ra)

\* np.abs(v) < np.abs(w); a comparison with NaN is False
AbsLess(v, w) == ~isnan(v) /\ ~isnan(w) /\ FracLess(v.num, v.den, w.num, w.den)

---------------------------------------------------------------------------
(* get_stress_level_insights *)

PyTuple(items) == [py |-> "tuple", items |-> items]
PyList(items) == [py |-> "list", items |-> items]

\* the placement with the key's sign dropped: ascending |corr|
InsertByKey_ascending(sorted, t) ==
    LET later == {i \in 1..Len(sorted) : AbsLess(t[2], sorted[i][2])}
        k == IF later = {} THEN Len(sorted) + 1
             ELSE CHOOSE i \in later : \A j \in later : i <= j
    IN  SubSeq(sorted, 1, k - 1) \o <<t>> \o SubSeq(sorted, k, Len(sorted))

\* list.sort(key=...) placing t: stable, ascending in the key -|corr|
InsertByKey(sorted, t) ==
    LET later == {i \in 1..Len(sorted) : AbsLess(sorted[i][2], t[2])}
        k == IF later = {} THEN Len(sorted) + 1
             ELSE CHOOSE i \in later : \A j \in later : i <= j
    IN  SubSeq(sorted, 1, k - 1) \o <<t>> \o SubSeq(sorted, k, Len(sorted))

RECURSIVE SortByAbsDesc(_)
SortByAbsDesc(ts) ==
    IF ts = <<>> THEN <<>>
    ELSE InsertByKey(SortByAbsDesc(SubSeq(ts, 1, Len(ts) - 1)), ts[Len(ts)])

\* the comprehension keeping the NaN entries
Candidates_keep_nan(df) ==
    LET all == [i \in 1..Len(df.cols) |->
                   <<df.cols[i], Pearson(df.rows, df.cols[i], "stress_level")>>]
    IN  SelectSeq(all, LAMBDA t : t[1] # "stress_level")

\* the comprehension of lines 32-35: (column, coefficient) in column order,
\* without the target and without NaN
Candidates(df) ==
    LET all == [i \in 1..Len(df.cols) |->
                   <<df.cols[i], Pearson(df.rows, df.cols[i], "stress_level")>>]
    IN  SelectSeq(all, LAMBDA t : t[1] # "stress_level" /\ ~isnan(t[2]))

\* tuples[:n] for n >= 0
Slice(ts, n) == SubSeq(ts, 1, Min(n, Len(ts)))

get_stress_level_insights(df, n) ==
    LET tuples == Slice(SortByAbsDesc(Candidates(df)), n)
    IN  [top_stress_features |-> [i \in 1..Len(tuples) |-> tuples[i][1]],
         correlations |-> [i \in 1..Len(tuples) |-> PyTuple(tuples[i])]]

\* Series.corr() needs its 'other' argument: df.corr() raises TypeError
corr_raises(df) == df.kind = "series"

---------------------------------------------------------------------------
(* json.dumps / json.loads.  The text is kept as the document it spells:   *)
(* a tuple and a list both become a JSON array, an array is read back as   *)
(* a list.                                                                 *)

json_dumps(insights) ==
    [top_stress_features |-> insights.top_stress_features,
     correlations |-> [i \in 1..Len(insights.correlations) |->
                          insights.correlations[i].items]]

json_loads(text) ==
    [top_stress_features |-> text.top_stress_features,
     correlations |-> [i \in 1..Len(text.correlations) |->
                          PyList(text.correlations[i])]]

---------------------------------------------------------------------------
(* The SQLite file.  db.rows is the set of rows of mental_insights_by_day, *)
(* each [day |-> text, mental_insights_json |-> document].                 *)

TableRow(day, json) == [day |-> day, mental_insights_json |-> json]

\* CREATE TABLE IF NOT EXISTS mental_insights_by_day (...)
CREATE_TABLE_COMMAND(d) ==
    IF d.exists THEN d ELSE [exists |-> TRUE, rows |-> {}]

\* INSERT OR IGNORE: a row whose day is already stored is left as it is
InsertOrIgnore(d, day, json) ==
    IF \E r \in d.rows : r.day = day THEN d
    ELSE [d EXCEPT !.rows = @ \cup {TableRow(day, json)}]

\* INSERT OR REPLACE INTO mental_insights_by_day (day, mental_insights_json):
\* day is the PRIMARY KEY, the row that holds it is deleted first
InsertOrReplace(d, day, json) ==
    [d EXCEPT !.rows = {r \in @ : r.day # day} \cup {TableRow(day, json)}]

\* SELECT mental_insights_json ... WHERE day = ?  with fetchone():
\* None, or the row as a 1-tuple
SelectWhereDay(d, day) ==
    IF \E r \in d.rows : r.day = day
    THEN [none |-> FALSE,
          row |-> <<(CHOOSE r \in d.rows : r.day = day).mental_insights_json>>]
    ELSE [none |-> TRUE, row |-> <<>>]

RECURSIVE AscendingByDay(_)
AscendingByDay(S) ==
    IF S = {} THEN <<>>
    ELSE LET m == CHOOSE x \in S : \A y \in S : ~TextLess(y.day, x.day)
         IN  <<m>> \o AscendingByDay(S \ {m})

RECURSIVE DescendingByDay(_)
DescendingByDay(S) ==
    IF S = {} THEN <<>>
    ELSE LET m == CHOOSE x \in S : \A y \in S : ~TextLess(x.day, y.day)
         IN  <<m>> \o DescendingByDay(S \ {m})

\* the query with ORDER BY day DESC
SelectAllOrderByDayDesc(d) == DescendingByDay(d.rows)

\* SELECT day, mental_insights_json ... ORDER BY day  with fetchall()
SelectAllOrderByDay(d) == AscendingByDay(d.rows)

\* bool(result) of a fetchone() result: None is false, a non-empty tuple true
Truthy(result) == ~result.none /\ Len(result.row) > 0

\* a lookup that tests the decoded ranking instead of the fetched row
get_mental_insights_by_day_tests_ranking(d, day) ==
    LET result == SelectWhereDay(d, isoformat(day))
    IN  IF Truthy(result) /\ json_loads(result.row[1]).correlations # <<>>
        THEN <<json_loads(result.row[1])>>
        ELSE <<>>

\* a lookup that answers a missing record with an empty ranking
get_mental_insights_by_day_default_empty(d, day) ==
    LET result == SelectWhereDay(d, isoformat(day))
    IN  IF Truthy(result) THEN <<json_loads(result.row[1])>>
        ELSE <<[top_stress_features |-> <<>>, correlations |-> <<>>]>>

\* InsightsDatabase.get_mental_insights_by_day when the query succeeds:
\* <<>> is None, <<x>> is the dict x
get_mental_insights_by_day(d, day) ==
    LET result == SelectWhereDay(d, isoformat(day))
    IN  IF Truthy(result) THEN <<json_loads(result.row[1])>> ELSE <<>>

\* InsightsDatabase.get_mental_insights_for_all_days when the query succeeds
get_mental_insights_for_all_days(d) ==
    LET results == SelectAllOrderByDay(d)
    IN  [i \in 1..Len(results) |->
            <<results[i].day, json_loads(results[i].mental_insights_json)>>]

\* InsightsDatabase.insert_mental_insights_for_day when the command succeeds
insert_mental_insights_for_day(d, day, insights) ==
    InsertOrReplace(d, isoformat(day), json_dumps(insights))

\* date.fromisoformat on a "YYYY-MM-DD" text
fromisoformat(s) ==
    Date((s[1] - 48) * 1000 + (s[2] - 48) * 100 + (s[3] - 48) * 10 + (s[4] - 48),
         (s[6] - 48) * 10 + (s[7] - 48),
         (s[9] - 48) * 10 + (s[10] - 48))

\* execute_db_command: how a call can end.  "connect_error": sqlite3.connect
\* raises, nothing was opened.  "execute_error": cursor.execute raises after
\* the connection was opened; conn.close() is not reached.
ExecOutcomes == {"ok", "connect_error", "execute_error"}

\* a command other than CREATE TABLE on a file without the table raises
ExecPossible(d, o, needs_table) ==
    /\ o = "ok" => (~needs_table \/ d.exists)
    /\ o = "execute_error" => open_conns < MaxLeaked

\* connections left open when execute_db_command ends with outcome o
ConnsAfter(o) == IF o = "execute_error" THEN open_conns + 1 ELSE open_conns

Ret(op, day, out, prior) == [op |-> op, day |-> day, out |-> out, prior |-> prior]

---------------------------------------------------------------------------
(* Values shared by the specifications *)

DayA == Date(2024, 1, 9)
DayB == Date(2024, 1, 10)

NoDay == Date(0, 0, 0)
NoRet == Ret("none", NoDay, <<>>, <<>>)
NoRun == [rows0 |-> {}, outcome |-> "none"]
NoFile == [exists |-> FALSE, rows |-> {}]

\* the sequences over 1..n of length 1..maxlen that never decrease: one
\* representative of every multiset of rows (sums and the set of dates do
\* not depend on the order of the rows)
NonDecreasing(n, maxlen) ==
    UNION {{s \in [1..k -> 1..n] : \A i \in 1..(k - 1) : s[i] <= s[i + 1]}
           : k \in 1..maxlen}

---------------------------------------------------------------------------
(* SpecRank: get_stress_level_insights on every frame of up to MaxRankRows *)
(* rows, with either column set, for every top_n in 0..MaxTopN.            *)

RankRow(i) ==
    CsvRow(IF (i - 1) \div 8 = 0 THEN DayA ELSE DayB,
           IF ((i - 1) \div 4) % 2 = 0 THEN 8 ELSE 20,
           1 + (((i - 1) \div 2) % 2),
           1 + ((i - 1) % 2))

RankInputs ==
    {[k \in DOMAIN s |-> RankRow(s[k])] : s \in NonDecreasing(16, MaxRankRows)}

InitRank ==
    /\ db = NoFile
    /\ open_conns = 0
    /\ pc = "rank_input"
    /\ top_n \in 0..MaxTopN
    /\ iot_data \in RankInputs
    /\ pending = {}
    /\ insights_on_whole_set = <<>>
    /\ ret = NoRet
    /\ run = NoRun

RankedFrame ==
    Frame(IF pc = "ranked_whole" THEN WholeSetColumns ELSE ByDayColumns,
          EnrichAll(iot_data))

\* get_stress_level_insights(iot_data.drop('timestamp_day', axis=1), top_n)
RankWholeSet ==
    /\ pc = "rank_input"
    /\ pc' = "ranked_whole"
    /\ ret' = Ret("rank", NoDay,
                   <<get_stress_level_insights(
                       Frame(WholeSetColumns, EnrichAll(iot_data)), top_n)>>, <<>>)
    /\ UNCHANGED <<db, open_conns, top_n, iot_data, pending,
                   insights_on_whole_set, run>>

\* get_stress_level_insights on a frame with the per-day columns
RankDayFrame ==
    /\ pc = "rank_input"
    /\ pc' = "ranked_day"
    /\ ret' = Ret("rank", NoDay,
                   <<get_stress_level_insights(
                       Frame(ByDayColumns, EnrichAll(iot_data)), top_n)>>, <<>>)
    /\ UNCHANGED <<db, open_conns, top_n, iot_data, pending,
                   insights_on_whole_set, run>>

NextRank == RankWholeSet \/ RankDayFrame

SpecRank == InitRank /\ [][NextRank]_vars

Ranked == pc \in {"ranked_whole", "ranked_day"}

ColIndex(cols, c) == CHOOSE i \in 1..Len(cols) : cols[i] = c

IsConstant(rows, c) ==
    \A i, j \in 1..Len(rows) : Numeric(rows[i], c) = Numeric(rows[j], c)

\* the features whose coefficient against the target is defined on the frame
DefinedFeatures(df) ==
    {df.cols[i] : i \in {k \in 1..Len(df.cols) :
        /\ df.cols[k] # "stress_level"
        /\ ~IsConstant(df.rows, df.cols[k])
        /\ ~IsConstant(df.rows, "stress_level")}}

SameAbs(v, w) == ~AbsLess(v, w) /\ ~AbsLess(w, v)

\* C6: the ranking has at most top_n pairs, |correlation| never increases
\* from one pair to the next, pairs of equal |correlation| stay in column
\* order, and the name list is the names of the pair list in the same order.
C6_RankBoundedSortedStable ==
    Ranked =>
        LET r == ret.out[1]
            pairs == r.correlations
            names == r.top_stress_features
            cols == RankedFrame.cols
        IN  /\ Len(pairs) <= top_n
            /\ \A i \in 1..(Len(pairs) - 1) :
                  /\ ~AbsLess(pairs[i].items[2], pairs[i + 1].items[2])
                  /\ SameAbs(pairs[i].items[2], pairs[i + 1].items[2])
                        => ColIndex(cols, pairs[i].items[1])
                             < ColIndex(cols, pairs[i + 1].items[1])
            /\ Len(names) = Len(pairs)
            /\ \A i \in 1..Len(pairs) : names[i] = pairs[i].items[1]

\* a ranking cut to top_n that holds both a tie and a strict decrease
C6_Witness ==
    /\ Ranked
    /\ top_n >= 3
    /\ LET pairs == ret.out[1].correlations
       IN  /\ Len(pairs) = top_n
           /\ Cardinality(DefinedFeatures(RankedFrame)) > top_n
           /\ \E i \in 1..(Len(pairs) - 1) :
                 SameAbs(pairs[i].items[2], pairs[i + 1].items[2])
           /\ \E i \in 1..(Len(pairs) - 1) :
                 AbsLess(pairs[i + 1].items[2], pairs[i].items[2])

\* C7: the ranking never names the target, never names a feature whose
\* coefficient is undefined on the frame (a constant column, a constant
\* target, a single row), and holds min(top_n, number of defined features)
\* entries: every defined feature is a candidate before the cut.
C7_TargetAndUndefinedExcluded ==
    Ranked =>
        LET names == ret.out[1].top_stress_features
            defined == DefinedFeatures(RankedFrame)
        IN  /\ \A i \in 1..Len(names) : names[i] # "stress_level"
            /\ \A i \in 1..Len(names) : names[i] \in defined
            /\ \A i, j \in 1..Len(names) : names[i] = names[j] => i = j
            /\ Len(names) = Min(top_n, Cardinality(defined))

\* hr is constant on the frame, other features are defined, and fewer
\* features are defined than top_n allows: all of them are returned
C7_Witness ==
    /\ Ranked
    /\ Len(iot_data) >= 2
    /\ IsConstant(RankedFrame.rows, "hr")
    /\ LET names == ret.out[1].top_stress_features
       IN  /\ Len(names) >= 1
           /\ Len(names) < top_n
           /\ \A i \in 1..Len(names) : names[i] # "hr"

---------------------------------------------------------------------------
(* SpecStore: the store API called in any order on one database file.      *)

StoreDays == {Date(999, 12, 31), DayA, DayB, Date(2024, 10, 1)}

\* rankings as get_stress_level_insights returns them: an empty one (the
\* target is constant), one of four tied features, one of a single feature
StoreSamples ==
    {<<CsvRow(DayA, 8, 1, 1), CsvRow(DayA, 20, 1, 2)>>,
     <<CsvRow(DayA, 8, 1, 1), CsvRow(DayA, 20, 2, 1)>>,
     <<CsvRow(DayA, 8, 1, 2), CsvRow(DayA, 8, 2, 1)>>}

StoreRankings ==
    {get_stress_level_insights(Frame(ByDayColumns, EnrichAll(r)), TOP_N)
        : r \in StoreSamples}

EmptyRanking == [top_stress_features |-> <<>>, correlations |-> <<>>]

InitStore ==
    /\ db = NoFile
    /\ open_conns = 0
    /\ pc = "store"
    /\ top_n = TOP_N
    /\ iot_data = <<>>
    /\ pending = {}
    /\ insights_on_whole_set = <<>>
    /\ ret = NoRet
    /\ run = NoRun

StoreUnchanged == UNCHANGED <<pc, top_n, iot_data, pending,
                              insights_on_whole_set, run>>

\* execute_db_command(self.database_path, CREATE_TABLE_COMMAND)
StoreCreateTable ==
    \E o \in ExecOutcomes :
        /\ ExecPossible(db, o, FALSE)
        /\ db' = IF o = "ok" THEN CREATE_TABLE_COMMAND(db) ELSE db
        /\ open_conns' = ConnsAfter(o)
        /\ ret' = Ret(IF o = "ok" THEN "create" ELSE "raise", NoDay, <<>>, <<>>)
        /\ StoreUnchanged

\* insert_mental_insights_for_day(_day, insights)
StoreInsert ==
    \E day \in StoreDays, insights \in StoreRankings, o \in ExecOutcomes :
        /\ ExecPossible(db, o, TRUE)
        /\ db' = IF o = "ok" THEN insert_mental_insights_for_day(db, day, insights)
                 ELSE db
        /\ open_conns' = ConnsAfter(o)
        /\ ret' = IF o = "ok"
                  THEN Ret("insert", day, <<insights>>,
                           SelectWhereDay(db, isoformat(day)).row)
                  ELSE Ret("raise", day, <<>>, <<>>)
        /\ StoreUnchanged

\* get_mental_insights_by_day(day)
StoreGet ==
    \E day \in StoreDays, o \in ExecOutcomes :
        /\ ExecPossible(db, o, TRUE)
        /\ open_conns' = ConnsAfter(o)
        /\ ret' = IF o = "ok"
                  THEN Ret("get", day, get_mental_insights_by_day(db, day), <<>>)
                  ELSE Ret("raise", day, <<>>, <<>>)
        /\ db' = db
        /\ StoreUnchanged

\* get_mental_insights_for_all_days()
StoreGetAll ==
    \E o \in ExecOutcomes :
        /\ ExecPossible(db, o, TRUE)
        /\ open_conns' = ConnsAfter(o)
        /\ ret' = IF o = "ok"
                  THEN Ret("get_all", NoDay, get_mental_insights_for_all_days(db), <<>>)
                  ELSE Ret("raise", NoDay, <<>>, <<>>)
        /\ db' = db
        /\ StoreUnchanged

\* a connection that execute_db_command left open is closed only when the
\* interpreter finalizes the abandoned Connection object
Finalize ==
    /\ open_conns > 0
    /\ open_conns' = open_conns - 1
    /\ UNCHANGED <<db, pc, top_n, iot_data, pending, insights_on_whole_set,
                   ret, run>>

NextStore == StoreCreateTable \/ StoreInsert \/ StoreGet \/ StoreGetAll \/ Finalize

SpecStore == InitStore /\ [][NextStore]_vars

\* the entries of get_mental_insights_for_all_days() for one date
EntriesFor(d, day) ==
    LET all == get_mental_insights_for_all_days(d)
    IN  {i \in 1..Len(all) : all[i][1] = isoformat(day)}

\* C1 as stated: after insert(d, Y) - whatever was stored for d before -
\* get(d) is equal to Y and get_all() has exactly one entry for d.
C1_GetEqualsInserted ==
    ret.op = "insert" =>
        /\ get_mental_insights_by_day(db, ret.day) = ret.out
        /\ Cardinality(EntriesFor(db, ret.day)) = 1

\* C1 amended: after insert(d, Y) - whatever was stored for d before -
\* get(d) is Y as decoded from its JSON text (the same names and values in
\* the same order, each pair a two-element list instead of a tuple), and
\* get_all() has exactly one entry for d.
C1_LastWriteWins ==
    ret.op = "insert" =>
        LET got == get_mental_insights_by_day(db, ret.day)
            y == ret.out[1]
        IN  /\ Len(got) = 1
            /\ got[1].top_stress_features = y.top_stress_features
            /\ Len(got[1].correlations) = Len(y.correlations)
            /\ \A i \in 1..Len(y.correlations) :
                  /\ got[1].correlations[i].py = "list"
                  /\ got[1].correlations[i].items = y.correlations[i].items
            /\ Cardinality(EntriesFor(db, ret.day)) = 1

\* insert(d, Y) has replaced a different, earlier record of d
C1_Witness ==
    /\ ret.op = "insert"
    /\ ret.prior # <<>>
    /\ ret.prior[1] # json_dumps(ret.out[1])
    /\ ret.out[1].correlations # <<>>
    /\ Cardinality(db.rows) >= 2

\* C5: get(d) is None when no record of d was written, and is the stored
\* ranking, not None, when a record of d exists - also when that ranking is
\* empty.
C5_AbsentOnlyWhenNotStored ==
    ret.op = "get" =>
        LET key == isoformat(ret.day)
        IN  /\ (~ \E r \in db.rows : r.day = key) => ret.out = <<>>
            /\ \A r \in db.rows : r.day = key =>
                  /\ Len(ret.out) = 1
                  /\ json_dumps(ret.out[1]) = r.mental_insights_json

\* get(d) returned the empty ranking stored for d
C5_Witness ==
    /\ ret.op = "get"
    /\ TableRow(isoformat(ret.day), json_dumps(EmptyRanking)) \in db.rows
    /\ ret.out = <<EmptyRanking>>

\* C8: get_all() returns every stored record exactly once, in strictly
\* ascending calendar order of their dates.
C8_AllDaysAscending ==
    ret.op = "get_all" =>
        /\ Len(ret.out) = Cardinality(db.rows)
        /\ \A r \in db.rows : \E i \in 1..Len(ret.out) :
              ret.out[i] = <<r.day, json_loads(r.mental_insights_json)>>
        /\ \A i, j \in 1..Len(ret.out) :
              i < j => DateLess(fromisoformat(ret.out[i][1]),
                                fromisoformat(ret.out[j][1]))

\* get_all() over a store holding every date, among them a year below 1000
C8_Witness ==
    /\ ret.op = "get_all"
    /\ Len(ret.out) = Cardinality(StoreDays)
    /\ \E i, j \in 1..Len(ret.out) :
          ret.out[i][2] # ret.out[j][2]

\* C9 as stated: no connection opened by a finished call is still open.
C9_NoConnectionLeftOpen == open_conns = 0

---------------------------------------------------------------------------
(* Spec: the process.  app.py constructs INSIGHTS_DB at start-up, which    *)
(* creates the table and runs the generation (its only caller); then the   *)
(* routes read.  The database file outlives the process.                   *)

\* two readings per date: on DayA stress and hr rise with the hour, on DayB
\* stress falls with the hour and hr stays the same
GenRow(i) ==
    IF i = 1 THEN CsvRow(DayA, 8, 1, 1)
    ELSE IF i = 2 THEN CsvRow(DayA, 20, 2, 2)
    ELSE IF i = 3 THEN CsvRow(DayB, 8, 2, 1)
    ELSE CsvRow(DayB, 20, 1, 1)

\* the CSV files: every multiset of 1..MaxGenRows rows over two dates
GenInputs ==
    {[k \in DOMAIN s |-> GenRow(s[k])] : s \in NonDecreasing(4, MaxGenRows)}

\* a date that no CSV file holds
DayC == Date(2024, 2, 1)
GenDays == {DayA, DayB, DayC}

Init ==
    /\ db = NoFile
    /\ open_conns = 0
    /\ pc = "stopped"
    /\ top_n = TOP_N
    /\ iot_data = <<>>
    /\ pending = {}
    /\ insights_on_whole_set = <<>>
    /\ ret = NoRet
    /\ run = NoRun

\* INSIGHTS_DB = InsightsDatabase(DATABASE_PATH, IOT_PATH, TOP_N), up to the
\* loop of generate_insights_from_iot_data: the table is created; the CSV
\* is read and enriched, the whole-set ranking is assigned and the dates
\* are collected.  An exception ends the start-up.
Construct ==
    /\ pc = "stopped"
    /\ top_n' = TOP_N
    /\ \/ \E o \in ExecOutcomes \ {"ok"} :
             /\ ExecPossible(db, o, FALSE)
             /\ open_conns' = ConnsAfter(o)
             /\ pc' = "crashed"
             /\ ret' = Ret("raise_db", NoDay, <<>>, <<>>)
             /\ UNCHANGED <<db, iot_data, pending, insights_on_whole_set, run>>
       \/ /\ db' = CREATE_TABLE_COMMAND(db)
          /\ open_conns' = open_conns
          /\ \/ /\ pc' = "crashed"
                /\ ret' = Ret("raise_load", NoDay, <<>>, <<>>)
                /\ run' = [rows0 |-> db.rows, outcome |-> "failed"]
                /\ UNCHANGED <<iot_data, pending, insights_on_whole_set>>
             \/ \E rows \in GenInputs :
                   /\ iot_data' = rows
                   /\ insights_on_whole_set' =
                         <<get_stress_level_insights(
                               Frame(WholeSetColumns, EnrichAll(rows)), TOP_N)>>
                   /\ pending' = DatesOf(rows)
                   /\ pc' = "generating"
                   /\ run' = [rows0 |-> db.rows, outcome |-> "running"]
                   /\ ret' = NoRet

\* an exception leaves the loop and the constructor: INSIGHTS_DB is never
\* bound, the object and its whole-set ranking are lost
GenerationFails(op, day) ==
    /\ ret' = Ret(op, day, <<>>, <<>>)
    /\ run' = [run EXCEPT !.outcome = "failed"]
    /\ pc' = "crashed"
    /\ insights_on_whole_set' = <<>>
    /\ pending' = {}
    /\ UNCHANGED <<db, top_n, iot_data>>

\* one iteration of  for _day in set(iot_data_by_day.index)
GenerateDay ==
    /\ pc = "generating"
    /\ \E day \in pending :
          LET df == loc(ByDayColumns, EnrichAll(iot_data), day)
          IN  IF corr_raises(df)
              THEN /\ GenerationFails("raise_corr", day)
                   /\ UNCHANGED open_conns
              ELSE \E o \in ExecOutcomes :
                      /\ ExecPossible(db, o, TRUE)
                      /\ open_conns' = ConnsAfter(o)
                      /\ IF o # "ok"
                         THEN GenerationFails("raise_db", day)
                         ELSE /\ db' = insert_mental_insights_for_day(
                                          db, day,
                                          get_stress_level_insights(df, top_n))
                              /\ pending' = pending \ {day}
                              /\ pc' = IF pending' = {} THEN "ready"
                                       ELSE "generating"
                              /\ run' = IF pending' = {}
                                        THEN [run EXCEPT !.outcome = "ok"]
                                        ELSE run
                              /\ ret' = Ret(IF pending' = {} THEN "generated"
                                            ELSE "stored", day, <<>>, <<>>)
                              /\ UNCHANGED <<top_n, iot_data,
                                             insights_on_whole_set>>

\* GET /mental-insights-by-day?date=...: get_mental_insights_by_day(day)
Get ==
    /\ pc = "ready"
    /\ \E day \in GenDays, o \in ExecOutcomes :
          /\ ExecPossible(db, o, TRUE)
          /\ open_conns' = ConnsAfter(o)
          /\ ret' = IF o = "ok"
                    THEN Ret("get", day, get_mental_insights_by_day(db, day), <<>>)
                    ELSE Ret("raise_db", day, <<>>, <<>>)
          /\ UNCHANGED <<db, pc, top_n, iot_data, pending,
                         insights_on_whole_set, run>>

\* GET /mental-insights: get_insights_on_whole_set()
GetWholeSet ==
    /\ pc = "ready"
    /\ ret' = Ret("get_whole", NoDay, insights_on_whole_set, <<>>)
    /\ UNCHANGED <<db, open_conns, pc, top_n, iot_data, pending,
                   insights_on_whole_set, run>>

\* the process ends, after serving or after a failed start-up; the database
\* file stays for the next start
Exit ==
    /\ pc \in {"ready", "crashed"}
    /\ pc' = "stopped"
    /\ insights_on_whole_set' = <<>>
    /\ iot_data' = <<>>
    /\ ret' = NoRet
    /\ run' = NoRun
    /\ UNCHANGED <<db, open_conns, top_n, pending>>

Next == Construct \/ GenerateDay \/ Get \/ GetWholeSet \/ Exit \/ Finalize

Spec == Init /\ [][Next]_vars

\* the ranking of one date of the dataset: over exactly that date's rows,
\* on the per-day columns (no day-of-week column)
DayRanking(rows, day) ==
    get_stress_level_insights(
        Frame(ByDayColumns, SelectRows(EnrichAll(rows), day)), top_n)

\* C2 as stated: a generation run that failed left nothing behind - the
\* store holds no record written by that run and no whole-set ranking is
\* held in memory.
C2_FailedRunLeavesNothing ==
    run.outcome = "failed" =>
        /\ db.rows = run.rows0
        /\ insights_on_whole_set = <<>>

\* C3 as stated: no date's ranking raises during the generation.
C3_NoDayRankingRaises == ret.op # "raise_corr"

\* C4 as stated: after a successful generation, get(d) is None for every
\* date d that the dataset of that generation does not hold.
C4_AbsentForDatesNotInDataset ==
    (ret.op = "get" /\ run.outcome = "ok" /\ ret.day \notin DatesOf(iot_data))
        => ret.out = <<>>

\* C4 amended: after a successful generation, get(d) is None for every
\* date d that the dataset does not hold and that had no record in the
\* store when the generation began; a record that an earlier run left for
\* such a date is kept and returned.
C4_AbsentUnlessStoredBefore ==
    (ret.op = "get" /\ run.outcome = "ok" /\ ret.day \notin DatesOf(iot_data))
        => /\ (~ \E r \in run.rows0 : r.day = isoformat(ret.day))
                 => ret.out = <<>>
           /\ \A r \in run.rows0 : r.day = isoformat(ret.day)
                 => ret.out = <<json_loads(r.mental_insights_json)>>

\* after a successful run over a store that held records, a date
\* outside the dataset and never stored is looked up and is absent
C4_Witness ==
    /\ ret.op = "get"
    /\ run.outcome = "ok"
    /\ run.rows0 # {}
    /\ ret.day \notin DatesOf(iot_data)
    /\ ret.out = <<>>

\* C10: after a successful generation the store is a function of the store
\* before the run and of the dataset alone, whatever order the dates were
\* taken in: every date of the dataset holds the ranking of exactly its own
\* rows (day-of-week not among the features), every other record is the one
\* the store held before.
C10_FinalStoreOrderIndependent ==
    run.outcome = "ok" =>
        /\ db.rows =
              {r \in run.rows0 :
                  \A d \in DatesOf(iot_data) : r.day # isoformat(d)}
              \cup {TableRow(isoformat(d), json_dumps(DayRanking(iot_data, d)))
                      : d \in DatesOf(iot_data)}
        /\ \A d \in DatesOf(iot_data) :
              \A i \in 1..Len(DayRanking(iot_data, d).top_stress_features) :
                 DayRanking(iot_data, d).top_stress_features[i]
                    # "timestamp_day_of_week"

\* a run over two dates with different rankings that took DayB first and
\* DayA last, on a store that already held records
C10_Witness ==
    /\ ret.op = "generated"
    /\ ret.day = DayA
    /\ DatesOf(iot_data) = {DayA, DayB}
    /\ run.rows0 # {}
    /\ DayRanking(iot_data, DayA) # DayRanking(iot_data, DayB)
    /\ DayRanking(iot_data, DayA).correlations # <<>>

===========================================================================
